---- MODULE Spec2Model ----
(***************************************************************************)
(* Eagle's View: the Linear data fetcher (fetch_v3_verify_items.py) and    *)
(* the dashboard API server (api_server.py).                               *)
(*                                                                         *)
(* Python values are modelled as follows.  A dict is a function whose      *)
(* domain is the set of keys present, so a missing key is a key outside    *)
(* the DOMAIN; None is the record None; a JSON list that may also be null  *)
(* is wrapped by PyList; a string that goes through str.lower() or         *)
(* str.join() is a sequence of one-character strings.                      *)
(***************************************************************************)
EXTENDS Integers, Sequences, FiniteSets, TLC

(***************************************************************************)
(* Bounds.  max_issues is the parameter of get_issues_by_label and         *)
(* get_issues_from_view (1000 by default) and PageLimit the page size 100  *)
(* of 'first': min(100, ...); both are scaled down so that both arms of    *)
(* the min are taken.                                                      *)
(***************************************************************************)
max_issues == 2
PageLimit == 1
MaxCsvIssues == 2

VARIABLES
    proc,                     \* the script process: "none", "running", "exited", "killed"
    entry,                    \* what runs: "main", or one function: "by_label", "view", "csv"
    fpc,                      \* position of the script
    phase,                    \* the fetch call in progress: "preprod", "blocker", "view", "none"
    all_issues,               \* all_issues of the fetch call in progress
    has_next_page,            \* has_next_page of the fetch call
    end_cursor,               \* end_cursor of the fetch call
    request,                  \* variables of the page request in flight, or None
    failed,                   \* a page request of this fetch call has failed
    stop_reported,            \* a page of this fetch call reported no further page
    api_error,                \* the API answered non-200 or with 'errors' during this run
    preprod_issues_filtered,  \* main's preprod_issues_filtered
    final_issues,             \* main's all_issues (after the merge and the final filter)
    json_out,                 \* what export_to_json wrote in this run, or None
    csv_out,                  \* the lines export_to_csv wrote in this run
    csv_raised,               \* export_to_csv raised
    returncode,               \* the exit status of the process, or None
    honours_first             \* the API returns at most 'first' nodes in a page

scriptvars == <<proc, entry, fpc, phase, all_issues, has_next_page, end_cursor,
                request, failed, stop_reported, api_error,
                preprod_issues_filtered, final_issues, json_out, csv_out,
                csv_raised, returncode, honours_first>>

VARIABLES
    spc,        \* the server: "off", "idle", "handling", "proxy_wait", "refresh_run",
                \* "responded"
    req,        \* the request being handled, or None
    wire,       \* what the handler has written to the client for this request
    outbound,   \* GraphQL requests the handler has issued for this request
    posted,     \* the query and variables of the last of them, or None
    upstream_reply, \* what the handler's requests.post got, or None
    dir_seen,   \* what glob and getmtime showed handle_get_latest_json, or None
    open        \* requests whose handling has started and not finished

servervars == <<spc, req, wire, outbound, posted, upstream_reply, dir_seen, open>>

vars == <<scriptvars, servervars>>

(***************************************************************************)
(* Python values                                                           *)
(***************************************************************************)
None == [py |-> "None"]
EmptyDict == [k \in {} |-> None]
PyList(s) == [list |-> s]

\* dict.get(k, default)
Get(d, k, default) == IF k \in DOMAIN d THEN d[k] ELSE default

\* bool(v) of a value that is None or a dict
Truthy(v) == v # None /\ DOMAIN v # {}

\* the result of an expression that may raise
Ok(v) == [ok |-> TRUE, v |-> v]
Raise(e) == [ok |-> FALSE, exc |-> e]

Min(a, b) == IF a < b THEN a ELSE b

SeqsUpTo(S, n) == UNION {[1..k -> S] : k \in 0..n}

(***************************************************************************)
(* str.lower()                                                             *)
(***************************************************************************)
UpperLetters == <<"A","B","C","D","E","F","G","H","I","J","K","L","M",
                  "N","O","P","Q","R","S","T","U","V","W","X","Y","Z">>
LowerLetters == <<"a","b","c","d","e","f","g","h","i","j","k","l","m",
                  "n","o","p","q","r","s","t","u","v","w","x","y","z">>

\* a str.lower() that leaves every character as it is
LowerCharIdentity(c) == c

LowerChar(c) ==
    IF \E i \in DOMAIN UpperLetters : UpperLetters[i] = c
    THEN LowerLetters[CHOOSE i \in DOMAIN UpperLetters : UpperLetters[i] = c]
    ELSE c

Lower(s) == [i \in DOMAIN s |-> LowerChar(s[i])]

launched == <<"l","a","u","n","c","h","e","d">>

(***************************************************************************)
(* The issues the API may return                                           *)
(***************************************************************************)
Launched_title == <<"L","a","u","n","c","h","e","d">>
LAUNCHED_upper == <<"L","A","U","N","C","H","E","D">>
preprod_v3 == <<"p","r","e","p","r","o","d","-","v","3">>
Release_Blocker == <<"R","e","l","e","a","s","e"," ","B","l","o","c","k","e","r">>

Label(n) == [name |-> n]
Labels(names) == [nodes |-> [i \in DOMAIN names |-> Label(names[i])]]

IssueA == [id |-> "i1", labels |-> Labels(<<preprod_v3>>),
           state |-> [name |-> "Todo"], team |-> [name |-> "ENG"],
           assignee |-> None, cycle |-> [name |-> "Cycle 7"]]
IssueB == [id |-> "i1", labels |-> Labels(<<preprod_v3, Launched_title>>),
           state |-> [name |-> "Done"], team |-> [name |-> "ENG"],
           assignee |-> [displayName |-> "ada"], project |-> None, cycle |-> None]
IssueC == [id |-> "i2", labels |-> Labels(<<Release_Blocker, preprod_v3>>),
           state |-> [name |-> "In Progress"], team |-> [name |-> "ENG"],
           assignee |-> [displayName |-> "ada"], project |-> [name |-> "V3"],
           cycle |-> None]
IssueD == [id |-> "i2", labels |-> Labels(<<LAUNCHED_upper, Release_Blocker>>),
           state |-> [name |-> "Done"], team |-> [name |-> "ENG"],
           assignee |-> None, project |-> None, cycle |-> None]
IssueE == [id |-> "i2", labels |-> None,
           state |-> [name |-> "Todo"], team |-> [name |-> "ENG"]]
IssueS == [id |-> "i3", labels |-> Labels(<<Release_Blocker>>),
           state |-> None, team |-> [name |-> "ENG"], assignee |-> None]

IssuePool == {IssueA, IssueB, IssueC, IssueD, IssueE, IssueS}

Cursors == {[cursor |-> "c1"], [cursor |-> "c2"]}

(***************************************************************************)
(* main: the 'launched' filter and the merge                               *)
(***************************************************************************)
\* any(label['name'].lower() == 'launched' for label in
\*     issue.get('labels', {}).get('nodes', []))
RECURSIVE AnyLaunchedFrom(_, _)
AnyLaunchedFrom(nodes, i) ==
    IF i > Len(nodes) THEN Ok(FALSE)
    ELSE IF "name" \notin DOMAIN nodes[i] THEN Raise("KeyError")
    ELSE IF Lower(nodes[i]["name"]) = launched THEN Ok(TRUE)
    ELSE AnyLaunchedFrom(nodes, i + 1)

HasLaunched(issue) ==
    LET labels == Get(issue, "labels", EmptyDict)
    IN  IF labels = None THEN Raise("AttributeError")
        ELSE AnyLaunchedFrom(Get(labels, "nodes", <<>>), 1)

\* [issue for issue in issues if not any(...)]
RECURSIVE FilterLaunchedFrom(_, _)
FilterLaunchedFrom(issues, i) ==
    IF i > Len(issues) THEN Ok(<<>>)
    ELSE LET h == HasLaunched(issues[i])
             rest == FilterLaunchedFrom(issues, i + 1)
         IN  IF ~h.ok THEN h
             ELSE IF ~rest.ok THEN rest
             ELSE IF h.v THEN rest
             ELSE Ok(<<issues[i]>> \o rest.v)

FilterLaunched(issues) == FilterLaunchedFrom(issues, 1)

\* a list.append in place of the dict assignment
DictPutAppend(d, issue) == Append(d, issue)

\* issues_dict[issue['id']] = issue, on a dict kept as the sequence of its
\* values in insertion order
DictPut(d, issue) ==
    IF \E i \in DOMAIN d : d[i]["id"] = issue["id"]
    THEN [i \in DOMAIN d |-> IF d[i]["id"] = issue["id"] THEN issue ELSE d[i]]
    ELSE Append(d, issue)

RECURSIVE MergeFrom(_, _, _)
MergeFrom(issues, i, d) ==
    IF i > Len(issues) THEN Ok(d)
    ELSE IF "id" \notin DOMAIN issues[i] THEN Raise("KeyError")
    ELSE MergeFrom(issues, i + 1, DictPut(d, issues[i]))

MergeIssues(issues) == MergeFrom(issues, 1, <<>>)

(***************************************************************************)
(* print_summary, export_to_json, export_to_csv                            *)
(***************************************************************************)
\* print_summary reads issue.get('state', {}).get('name', 'Unknown') of
\* every issue; its other reads cannot raise
PrintSummary(issues) ==
    IF \E i \in DOMAIN issues : Get(issues[i], "state", EmptyDict) = None
    THEN Raise("AttributeError")
    ELSE Ok(TRUE)

fieldnames == <<"identifier", "title", "url", "state", "priority", "estimate",
                "assignee", "team", "project", "cycle", "labels",
                "created_at", "updated_at", "due_date">>

\* ', '.join(names)
RECURSIVE JoinFrom(_, _)
JoinFrom(names, i) ==
    IF i > Len(names) THEN <<>>
    ELSE IF i = Len(names) THEN names[i]
    ELSE names[i] \o <<",", " ">> \o JoinFrom(names, i + 1)

\* issue.get(k, {}).get(name, '')
NameOf(issue, k, name) ==
    LET v == Get(issue, k, EmptyDict)
    IN  IF v = None THEN Raise("AttributeError") ELSE Ok(Get(v, name, ""))

\* issue.get(k, {}).get(name, '') if issue.get(k) else ''
GuardedNameOf(issue, k, name) ==
    IF Truthy(Get(issue, k, None)) THEN Get(Get(issue, k, EmptyDict), name, "") ELSE ""

\* ', '.join([label.get('name', '') for label in
\*            issue.get('labels', {}).get('nodes', [])])
LabelsCell(issue) ==
    LET labels == Get(issue, "labels", EmptyDict)
    IN  IF labels = None THEN Raise("AttributeError")
        ELSE LET nodes == Get(labels, "nodes", <<>>)
             IN  Ok(JoinFrom([i \in DOMAIN nodes |-> Get(nodes[i], "name", <<>>)], 1))

\* the row dict of one issue, built in the order of the dict display
CsvRow(issue) ==
    LET state == NameOf(issue, "state", "name")
        team == NameOf(issue, "team", "name")
        labels == LabelsCell(issue)
    IN  IF ~state.ok THEN state
        ELSE IF ~team.ok THEN team
        ELSE IF ~labels.ok THEN labels
        ELSE Ok([identifier |-> Get(issue, "identifier", ""),
                 title |-> Get(issue, "title", ""),
                 url |-> Get(issue, "url", ""),
                 state |-> state.v,
                 priority |-> Get(issue, "priorityLabel", ""),
                 estimate |-> Get(issue, "estimate", ""),
                 assignee |-> GuardedNameOf(issue, "assignee", "displayName"),
                 team |-> team.v,
                 project |-> GuardedNameOf(issue, "project", "name"),
                 cycle |-> GuardedNameOf(issue, "cycle", "name"),
                 labels |-> labels.v,
                 created_at |-> Get(issue, "createdAt", ""),
                 updated_at |-> Get(issue, "updatedAt", ""),
                 due_date |-> Get(issue, "dueDate", "")])

\* the lines export_to_csv writes for issues[i..], after `written`; it stops
\* at the first issue whose row raises
RECURSIVE CsvWriteFrom(_, _, _)
CsvWriteFrom(issues, i, written) ==
    IF i > Len(issues) THEN [lines |-> written, raised |-> FALSE]
    ELSE LET row == CsvRow(issues[i])
         IN  IF ~row.ok THEN [lines |-> written, raised |-> TRUE]
             ELSE CsvWriteFrom(issues, i + 1, Append(written, [row |-> row.v]))

\* export_to_csv(issues): nothing for an empty list, else the header line
\* and the rows
ExportToCsv(issues) ==
    IF issues = <<>> THEN [lines |-> <<>>, raised |-> FALSE]
    ELSE CsvWriteFrom(issues, 1, <<[header |-> fieldnames]>>)

(***************************************************************************)
(* The API's answers to a GraphQL request of the fetcher                   *)
(***************************************************************************)
NotJson == [text |-> "<html>"]
NetError == [exc |-> "ConnectionError"]

PageInfos ==
    {EmptyDict, [hasNextPage |-> TRUE], [hasNextPage |-> FALSE, endCursor |-> None]}
    \cup {[hasNextPage |-> TRUE, endCursor |-> c] : c \in Cursors \cup {None}}

\* the documents under 'issues' with at most n nodes
IssuesDatas(first, pool) ==
    {n @@ p : n \in {EmptyDict, [nodes |-> None]}
                    \cup {[nodes |-> PyList(s)] : s \in SeqsUpTo(pool, first)},
              p \in {EmptyDict, [pageInfo |-> None]}
                    \cup {[pageInfo |-> i] : i \in PageInfos}}

\* the JSON documents without 'errors' that answer a page request
PageResults(first, ph, pool) ==
    {EmptyDict, [data |-> None], [data |-> EmptyDict]}
    \cup (IF ph = "view"
          THEN {[data |-> [customView |-> None]],
                [data |-> [customView |-> EmptyDict]],
                [data |-> [customView |-> [issues |-> None]]]}
               \cup {[data |-> [customView |-> [issues |-> d]]] : d \in IssuesDatas(first, pool)}
          ELSE {[data |-> [issues |-> None]]}
               \cup {[data |-> [issues |-> d]] : d \in IssuesDatas(first, pool)})

Failures ==
    {NetError,
     [status_code |-> 500, json |-> NotJson],
     [status_code |-> 200, json |-> NotJson],
     [status_code |-> 200, json |-> [errors |-> "E"]],
     [status_code |-> 200, json |-> [errors |-> "E", data |-> None]]}

PageResponses(first, ph, pool) ==
    Failures \cup {[status_code |-> 200, json |-> r] : r \in PageResults(first, ph, pool)}

\* the API reported an error: a non-200 status or a GraphQL 'errors' reply
IsApiError(response) ==
    /\ "exc" \notin DOMAIN response
    /\ \/ response.status_code # 200
       \/ response.json # NotJson /\ "errors" \in DOMAIN response.json

(***************************************************************************)
(* LinearViewFetcher                                                       *)
(***************************************************************************)
\* _make_request
MakeRequest(response) ==
    IF "exc" \in DOMAIN response THEN Raise("ConnectionError")
    ELSE IF response.status_code # 200 THEN Raise("API request failed")
    ELSE IF response.json = NotJson THEN Raise("JSONDecodeError")
    ELSE IF "errors" \in DOMAIN response.json THEN Raise("GraphQL errors")
    ELSE Ok(response.json)

\* result.get('data', {}).get('issues', {}), and for a view
\* result.get('data', {}).get('customView', {}).get('issues', {})
IssuesDataOf(result, ph) ==
    LET data == Get(result, "data", EmptyDict)
    IN  IF data = None THEN Raise("AttributeError")
        ELSE IF ph = "view"
        THEN LET custom_view == Get(data, "customView", EmptyDict)
             IN  IF custom_view = None THEN Raise("AttributeError")
                 ELSE Ok(Get(custom_view, "issues", EmptyDict))
        ELSE Ok(Get(data, "issues", EmptyDict))

\* the loop condition without its test of max_issues
HasNextPageIgnoringMax(page_info, n) == Get(page_info, "hasNextPage", FALSE)

\* page_info.get('hasNextPage', False) and len(all_issues) < max_issues
HasNextPage(page_info, n) == Get(page_info, "hasNextPage", FALSE) /\ n < max_issues

\* 'first' without the cap of the page size
FirstUncapped(n) == max_issues - n

\* min(100, max_issues - len(all_issues))
First(n) == Min(PageLimit, max_issues - n)

\* an except clause that prints and lets the loop go on
OnPageErrorContinue(cur) == [cur EXCEPT !.failed = TRUE]

\* an except clause that gives up what has been fetched
OnPageErrorDropAll(cur) == [cur EXCEPT !.failed = TRUE, !.break = TRUE, !.all_issues = <<>>]

\* what the except clause of the loop does: print, break
OnPageError(cur) == [cur EXCEPT !.failed = TRUE, !.break = TRUE]

\* the body of the try of one loop iteration, on the locals `cur`
ProcessPage(response, ph, cur) ==
    LET r == MakeRequest(response)
    IN  IF ~r.ok THEN OnPageError(cur)
        ELSE LET d == IssuesDataOf(r.v, ph)
             IN  IF ~d.ok \/ d.v = None THEN OnPageError(cur)
                 ELSE LET nodes == Get(d.v, "nodes", PyList(<<>>))
                      IN  IF nodes = None THEN OnPageError(cur)
                          ELSE LET ext == cur.all_issues \o nodes.list
                                   page_info == Get(d.v, "pageInfo", EmptyDict)
                               IN  IF page_info = None
                                   THEN OnPageError([cur EXCEPT !.all_issues = ext])
                                   ELSE LET more == HasNextPage(page_info, Len(ext))
                                        IN  [all_issues |-> ext,
                                             has_next_page |-> more,
                                             end_cursor |-> Get(page_info, "endCursor", None),
                                             failed |-> cur.failed,
                                             break |-> ~more]

\* the response is a well-formed page that reports no further page
ReportsNoNextPage(response, ph) ==
    LET r == MakeRequest(response)
    IN  /\ r.ok
        /\ LET d == IssuesDataOf(r.v, ph)
           IN  /\ d.ok /\ d.v # None
               /\ Get(d.v, "nodes", PyList(<<>>)) # None
               /\ Get(d.v, "pageInfo", EmptyDict) # None
               /\ ~Get(Get(d.v, "pageInfo", EmptyDict), "hasNextPage", FALSE)

(***************************************************************************)
(* The script process: main(), or one fetcher function called on its own   *)
(***************************************************************************)
Running == proc = "running"

UnchangedServer == UNCHANGED servervars

\* the locals of a fetch call at its first loop test
EnterLoop(ph) ==
    /\ phase' = ph
    /\ all_issues' = <<>>
    /\ has_next_page' = TRUE
    /\ end_cursor' = None
    /\ request' = None
    /\ failed' = FALSE
    /\ stop_reported' = FALSE
    /\ fpc' = "loop"

\* the locals of a process that is not inside a fetch call
NoCall ==
    /\ phase' = "none"
    /\ all_issues' = <<>>
    /\ has_next_page' = TRUE
    /\ end_cursor' = None
    /\ request' = None
    /\ failed' = FALSE
    /\ stop_reported' = FALSE

\* the process ends with exit status rc; its memory is gone, what it wrote
\* stays
Exit(rc) ==
    /\ fpc' = (IF rc = 0 THEN "done" ELSE "exit1")
    /\ proc' = "exited"
    /\ returncode' = [rc |-> rc]
    /\ preprod_issues_filtered' = <<>>
    /\ NoCall

UnchangedCall ==
    UNCHANGED <<phase, all_issues, has_next_page, end_cursor, request, failed,
                stop_reported>>

UnchangedMain ==
    UNCHANGED <<preprod_issues_filtered, final_issues, json_out, csv_out,
                csv_raised>>

\* main: LinearViewFetcher() and the call get_issues_by_label("preprod-v3")
MainStart ==
    /\ Running /\ entry = "main" /\ fpc = "start"
    /\ \E api_key \in BOOLEAN :
          IF api_key
          THEN EnterLoop("preprod") /\ UNCHANGED <<proc, returncode, preprod_issues_filtered>>
          ELSE Exit(1)
    /\ UNCHANGED <<entry, api_error, final_issues, json_out, csv_out, csv_raised>>
    /\ UnchangedServer /\ UNCHANGED honours_first

\* a direct call of get_issues_by_label or get_issues_from_view
CallStart ==
    /\ Running /\ fpc = "start"
    /\ \/ entry = "by_label" /\ EnterLoop("blocker")
       \/ /\ entry = "view"
          /\ fpc' = "view_lookup"
          /\ phase' = "view"
          /\ request' = [viewId |-> "v"]
          /\ UNCHANGED <<all_issues, has_next_page, end_cursor, failed, stop_reported>>
    /\ UNCHANGED <<proc, entry, returncode, api_error>>
    /\ UnchangedMain /\ UnchangedServer /\ UNCHANGED honours_first

\* get_custom_view, then get_issues_from_view up to its loop
ViewResponses ==
    Failures \cup {[status_code |-> 200, json |-> r] :
                     r \in {EmptyDict, [data |-> None], [data |-> EmptyDict],
                            [data |-> [customView |-> None]],
                            [data |-> [customView |-> [name |-> "v3"]]],
                            [data |-> [customView |-> [name |-> "v3", team |-> None]]]}}

GetCustomView(response) ==
    LET r == MakeRequest(response)
    IN  IF ~r.ok THEN None
        ELSE LET data == Get(r.v, "data", EmptyDict)
             IN  IF data = None THEN None ELSE Get(data, "customView", None)

CustomViewReply ==
    /\ Running /\ fpc = "view_lookup"
    /\ \E response \in ViewResponses :
          /\ api_error' = (api_error \/ IsApiError(response))
          /\ IF Truthy(GetCustomView(response))
             THEN EnterLoop("view")
             ELSE /\ fpc' = "returned"
                  /\ request' = None
                  /\ UNCHANGED <<phase, all_issues, has_next_page, end_cursor,
                                 failed, stop_reported>>
    /\ UNCHANGED <<proc, entry, returncode>>
    /\ UnchangedMain /\ UnchangedServer /\ UNCHANGED honours_first

\* the loop test passed: the page request is posted
SendPageRequest ==
    /\ Running /\ fpc = "loop" /\ has_next_page
    /\ request' = [first |-> First(Len(all_issues)), after |-> end_cursor]
    /\ fpc' = "wait"
    /\ UNCHANGED <<proc, entry, returncode, api_error, phase, all_issues,
                   has_next_page, end_cursor, failed, stop_reported>>
    /\ UnchangedMain /\ UnchangedServer /\ UNCHANGED honours_first

\* the issues the API's pages are drawn from: a direct call is checked for
\* its paging, which does not read the issues
Pool(e) == IF e = "main" THEN IssuePool ELSE {IssueA, IssueC, IssueS}

\* how many nodes more than 'first' a page may carry
Overshoot == IF honours_first THEN 0 ELSE 1

\* the rest of the iteration, once the API has answered
ReceivePage ==
    /\ Running /\ fpc = "wait"
    /\ \E response \in PageResponses(request.first + Overshoot, phase, Pool(entry)) :
          LET cur == [all_issues |-> all_issues, has_next_page |-> has_next_page,
                      end_cursor |-> end_cursor, failed |-> failed, break |-> FALSE]
              new == ProcessPage(response, phase, cur)
          IN  /\ all_issues' = new.all_issues
              /\ failed' = new.failed
              /\ api_error' = (api_error \/ IsApiError(response))
              /\ IF new.break \/ ~new.has_next_page
                 THEN \* return all_issues: the other locals are gone
                      /\ fpc' = "returned"
                      /\ has_next_page' = TRUE
                      /\ end_cursor' = None
                      /\ stop_reported' = FALSE
                 ELSE /\ fpc' = "loop"
                      /\ has_next_page' = new.has_next_page
                      /\ end_cursor' = new.end_cursor
                      /\ stop_reported' = ReportsNoNextPage(response, phase)
    /\ request' = None
    /\ UNCHANGED <<proc, entry, returncode, phase>>
    /\ UnchangedMain /\ UnchangedServer /\ UNCHANGED honours_first

\* main: the filter of the preprod-v3 issues and the call
\* get_issues_by_label("Release Blocker")
FilterPreprod ==
    /\ Running /\ entry = "main" /\ fpc = "returned" /\ phase = "preprod"
    /\ LET f == FilterLaunched(all_issues)
       IN  IF f.ok
           THEN /\ preprod_issues_filtered' = f.v
                /\ EnterLoop("blocker")
                /\ UNCHANGED <<proc, returncode>>
           ELSE Exit(1)
    /\ UNCHANGED <<entry, api_error, final_issues, json_out, csv_out, csv_raised>>
    /\ UnchangedServer /\ UNCHANGED honours_first

\* issues_dict and the final filter, as one expression that may raise
MergedAndFiltered(preprod, blocker) ==
    LET m == MergeIssues(preprod \o blocker)
    IN  IF m.ok THEN FilterLaunched(m.v) ELSE m

\* main without the test 'if not all_issues'
MergeAndFilterNoEmptyTest ==
    /\ Running /\ entry = "main" /\ fpc = "returned" /\ phase = "blocker"
    /\ LET f == MergedAndFiltered(preprod_issues_filtered, all_issues)
       IN  IF ~f.ok
           THEN Exit(1) /\ UNCHANGED final_issues
           ELSE /\ final_issues' = f.v
                /\ fpc' = "summary"
                /\ UNCHANGED <<proc, returncode, preprod_issues_filtered>>
                /\ UnchangedCall
    /\ UNCHANGED <<entry, api_error, json_out, csv_out, csv_raised>>
    /\ UnchangedServer /\ UNCHANGED honours_first

\* main: the merge, the final filter and the test 'if not all_issues'
MergeAndFilter ==
    /\ Running /\ entry = "main" /\ fpc = "returned" /\ phase = "blocker"
    /\ LET f == MergedAndFiltered(preprod_issues_filtered, all_issues)
       IN  IF ~f.ok
           THEN Exit(1) /\ UNCHANGED final_issues
           ELSE /\ final_issues' = f.v
                /\ IF f.v = <<>>
                   THEN Exit(0)
                   ELSE /\ fpc' = "summary"
                        /\ UNCHANGED <<proc, returncode, preprod_issues_filtered>>
                        /\ UnchangedCall
    /\ UNCHANGED <<entry, api_error, json_out, csv_out, csv_raised>>
    /\ UnchangedServer /\ UNCHANGED honours_first

\* main: fetcher.print_summary(all_issues)
Summarise ==
    /\ Running /\ entry = "main" /\ fpc = "summary"
    /\ IF PrintSummary(final_issues).ok
       THEN /\ fpc' = "export_json"
            /\ UNCHANGED <<proc, returncode, preprod_issues_filtered>>
            /\ UnchangedCall
       ELSE Exit(1)
    /\ UNCHANGED <<entry, api_error, final_issues, json_out, csv_out, csv_raised>>
    /\ UnchangedServer /\ UNCHANGED honours_first

\* main: fetcher.export_to_json(all_issues); open() may fail
ExportJson ==
    /\ Running /\ entry = "main" /\ fpc = "export_json"
    /\ \E io_ok \in BOOLEAN :
          IF io_ok
          THEN /\ json_out' = PyList(final_issues)
               /\ fpc' = "export_csv"
               /\ UNCHANGED <<proc, returncode, preprod_issues_filtered>>
               /\ UnchangedCall
          ELSE Exit(1) /\ UNCHANGED json_out
    /\ UNCHANGED <<entry, api_error, final_issues, csv_out, csv_raised>>
    /\ UnchangedServer /\ UNCHANGED honours_first

\* fetcher.export_to_csv(issues) as main or a direct caller runs it
ExportCsv ==
    /\ Running /\ fpc = "export_csv"
    /\ \E io_ok \in BOOLEAN :
          IF io_ok
          THEN LET out == ExportToCsv(final_issues)
               IN  /\ csv_out' = out.lines
                   /\ csv_raised' = out.raised
                   /\ Exit(IF out.raised THEN 1 ELSE 0)
          ELSE Exit(1) /\ UNCHANGED <<csv_out, csv_raised>>
    /\ UNCHANGED <<entry, api_error, final_issues, json_out>>
    /\ UnchangedServer /\ UNCHANGED honours_first

(***************************************************************************)
(* api_server.py: requests, upstream replies, responses                    *)
(***************************************************************************)
S(x) == [s |-> x]
G(x) == [gql |-> x]
Exc(name) == [text |-> name]

\* a test for None in place of the truth value
StrTruthyNotNone(v) == v # None

\* bool(v) of a value that is None or a string
StrTruthy(v) == v # None /\ v # S("")

\* _set_headers(status, content_type), and wfile.write(body)
SetHeaders(status, content_type) == [status |-> status, content_type |-> content_type]
Body(v) == [body |-> v]

JsonResponse(status, v) == <<SetHeaders(status, "application/json"), Body(v)>>

BodyDicts ==
    {EmptyDict,
     [issueId |-> S("I")],
     [issueId |-> S("I"), labelId |-> S("")],
     [issueId |-> None, labelId |-> S("L")],
     [issueId |-> S("I"), labelId |-> S("L")],
     [teamId |-> S("T")]}

\* the Content-Length header and the bytes of a POST
Posts ==
    {[content_length |-> None], [content_length |-> S("abc")]}
    \cup {[content_length |-> S("ok"), body |-> b] :
            b \in {NotJson, PyList(<<>>)} \cup BodyDicts}

PostPaths ==
    {<<"/api/add-label">>, <<"/api/remove-label">>, <<"/api/available-labels">>,
     <<"/api/refresh-data">>, <<"/api/add-label", "?x=1">>, <<"/api/unknown">>}

GetPaths ==
    {<<"/api/issue-labels">>, <<"/api/issue-labels", "?issueId=", "I">>,
     <<"/api/issue-labels", "?issueId=">>, <<"/api/issue-labels", "-x", "?issueId=", "I">>,
     <<"/api/latest-json">>, <<"/api/latest-json", "?t=1">>,
     <<"/">>, <<"/", "viewer.html">>, <<"/", "viewer.html", "?v=2">>,
     <<"/", "nofile.css">>, <<"/", "../", "secret.txt">>,
     <<"/", "sub/", "../", "viewer.html">>, <<"/", "/", "../", "nofile.css">>}

\* the paths whose handler reads the body of the POST
BodyPaths == {<<"/api/add-label">>, <<"/api/remove-label">>, <<"/api/available-labels">>}

Requests ==
    {[method |-> "POST", path |-> p, post |-> b] : p \in BodyPaths, b \in Posts}
    \cup {[method |-> "POST", path |-> p, post |-> [content_length |-> None]] :
             p \in PostPaths \ BodyPaths}
    \cup {[method |-> "GET", path |-> p] : p \in GetPaths}
    \cup {[method |-> "OPTIONS", path |-> <<"/api/add-label">>]}

\* what requests.post(...) and response.json() give a proxy handler
ProxyReplies ==
    {NetError}
    \cup {[json |-> j] :
            j \in {NotJson, None, PyList(<<>>), PyList(<<"errors">>), EmptyDict,
                   [errors |-> G("E")], [errors |-> G("E"), data |-> None],
                   [errors |-> G("E"), data |-> G("D")],
                   [data |-> G("D")], [data |-> None]}}

IsList(j) == j # None /\ "list" \in DOMAIN j

\* int(self.headers['Content-Length']), rfile.read, json.loads
ParseBody(post) ==
    IF post.content_length = None THEN Raise("TypeError")
    ELSE IF post.content_length # S("ok") THEN Raise("ValueError")
    ELSE IF post.body = NotJson THEN Raise("JSONDecodeError")
    ELSE Ok(post.body)

\* handle_add_label and handle_remove_label up to requests.post: the
\* response, or the GraphQL request to post
LabelMutation(post, mutation) ==
    LET data == ParseBody(post)
    IN  IF ~data.ok THEN [respond |-> JsonResponse(500, [error |-> Exc(data.exc)])]
        ELSE IF IsList(data.v)
        THEN [respond |-> JsonResponse(500, [error |-> Exc("AttributeError")])]
        ELSE LET issue_id == Get(data.v, "issueId", None)
                 label_id == Get(data.v, "labelId", None)
             IN  IF ~StrTruthy(issue_id) \/ ~StrTruthy(label_id)
                 THEN [respond |-> JsonResponse(400,
                                     [error |-> Exc("Missing issueId or labelId")])]
                 ELSE [query |-> mutation,
                       variables |-> [issueId |-> issue_id, labelId |-> label_id]]

\* handle_get_available_labels up to requests.post
AvailableLabels(post) ==
    LET data == ParseBody(post)
    IN  IF ~data.ok THEN [respond |-> JsonResponse(500, [error |-> Exc(data.exc)])]
        ELSE IF IsList(data.v)
        THEN [respond |-> JsonResponse(500, [error |-> Exc("AttributeError")])]
        ELSE LET team_id == Get(data.v, "teamId", None)
             IN  IF StrTruthy(team_id)
                 THEN [query |-> "GetTeamLabels", variables |-> [teamId |-> team_id]]
                 ELSE [query |-> "GetAllLabels", variables |-> EmptyDict]

\* parse_qs(urlparse(self.path).query).get('issueId', [None])[0]; parse_qs
\* drops a parameter whose value is blank
IssueIdParam(path) ==
    IF \E i \in DOMAIN path : path[i] = "?issueId=" /\ i < Len(path)
    THEN S(path[(CHOOSE i \in DOMAIN path : path[i] = "?issueId=") + 1])
    ELSE None

\* handle_get_issue_labels up to requests.post
IssueLabels(path) ==
    LET issue_id == IssueIdParam(path)
    IN  IF ~StrTruthy(issue_id)
        THEN [respond |-> JsonResponse(400, [error |-> Exc("Missing issueId")])]
        ELSE [query |-> "GetIssueLabels", variables |-> [issueId |-> issue_id]]

\* 'errors' in result
ErrorsIn(result) ==
    IF result = None THEN Raise("TypeError")
    ELSE IF IsList(result) THEN Ok(\E i \in DOMAIN result.list : result.list[i] = "errors")
    ELSE Ok("errors" \in DOMAIN result)

\* result[k]
Subscript(result, k) ==
    IF IsList(result) THEN Raise("TypeError")
    ELSE IF k \in DOMAIN result THEN Ok(result[k])
    ELSE Raise("KeyError")

\* the except clause of a handler: a status line and an error body, after
\* whatever the try block has already written
ExceptClause(written, exc) == written \o JsonResponse(500, [error |-> Exc(exc)])

\* a handler that looks for 'data' before it looks for 'errors'
ProxyRespondDataFirst(reply) ==
    IF "exc" \in DOMAIN reply THEN ExceptClause(<<>>, reply.exc)
    ELSE IF reply.json = NotJson THEN ExceptClause(<<>>, "JSONDecodeError")
    ELSE LET result == reply.json
             has_errors == ErrorsIn(result)
         IN  IF ~has_errors.ok THEN ExceptClause(<<>>, has_errors.exc)
             ELSE LET d == Subscript(result, "data")
                  IN  IF d.ok THEN JsonResponse(200, d.v)
                      ELSE IF has_errors.v /\ ~IsList(result)
                      THEN JsonResponse(400, [error |-> result["errors"]])
                      ELSE ExceptClause(<<SetHeaders(200, "application/json")>>, d.exc)

\* a proxy handler from response.json() on: what it writes to the client
ProxyRespond(reply) ==
    IF "exc" \in DOMAIN reply THEN ExceptClause(<<>>, reply.exc)
    ELSE IF reply.json = NotJson THEN ExceptClause(<<>>, "JSONDecodeError")
    ELSE LET result == reply.json
             has_errors == ErrorsIn(result)
         IN  IF ~has_errors.ok THEN ExceptClause(<<>>, has_errors.exc)
             ELSE IF has_errors.v
             THEN LET e == Subscript(result, "errors")
                  IN  IF e.ok THEN JsonResponse(400, [error |-> e.v])
                      ELSE ExceptClause(<<SetHeaders(400, "application/json")>>, e.exc)
             ELSE LET d == Subscript(result, "data")
                  IN  IF d.ok THEN JsonResponse(200, d.v)
                      ELSE ExceptClause(<<SetHeaders(200, "application/json")>>, d.exc)

(***************************************************************************)
(* latest-json and static files                                            *)
(***************************************************************************)
script_dir == "/srv/eagleview"

File(name, mtime) == [name |-> name, mtime |-> mtime]

\* what glob and os.path.getmtime may find in the script directory
Listings ==
    LET a == File(<<"linear_view_issues_", "a", ".json">>, 1)
        b == File(<<"linear_view_issues_", "b", ".json">>, 2)
        c == File(<<"linear_view_issues_", "c", ".json">>, 2)
        v == File(<<"linear_view_issues_", "a", ".csv">>, 3)
        w == File(<<"viewer.html">>, 4)
        x == File(<<"linear_view_issues_", "a", ".json", ".bak">>, 5)
    IN  {<<>>, <<v, w>>, <<x>>, <<a>>, <<a, b, w>>, <<b, a, x>>, <<b, c, v>>, <<c, b>>}

\* glob.glob(os.path.join(script_dir, 'linear_view_issues_*.json'))
Matches(name) ==
    Len(name) = 3 /\ name[1] = "linear_view_issues_" /\ name[3] = ".json"

\* the matching files, by the full path that glob returns
Glob(listing) ==
    LET found == SelectSeq(listing, LAMBDA f : Matches(f.name))
    IN  [i \in DOMAIN found |->
            [found[i] EXCEPT !.name = <<script_dir, "/">> \o found[i].name]]

\* os.path.basename(path): what follows the last '/'
Basename(path) ==
    LET slashes == {i \in DOMAIN path : path[i] = "/"}
        last == IF slashes = {} THEN 0
                ELSE CHOOSE i \in slashes : \A j \in slashes : j <= i
    IN  SubSeq(path, last + 1, Len(path))

\* the first file glob listed, without the sort
LatestFirstListed(json_files) == json_files[1]

\* json_files.sort(key=os.path.getmtime, reverse=True); json_files[0]: the
\* sort is stable, so of the files with the greatest mtime the first one
Latest(json_files) ==
    json_files[CHOOSE i \in DOMAIN json_files :
                 /\ \A j \in DOMAIN json_files : json_files[j].mtime <= json_files[i].mtime
                 /\ \A j \in 1..(i - 1) : json_files[j].mtime < json_files[i].mtime]

\* handle_get_latest_json; a file may vanish between glob and getmtime
LatestJson(listing, vanished) ==
    LET json_files == Glob(listing)
    IN  IF json_files = <<>>
        THEN JsonResponse(404, [error |-> Exc("No data files found")])
        ELSE IF vanished THEN ExceptClause(<<>>, "FileNotFoundError")
        ELSE JsonResponse(200, [filename |-> Basename(Latest(json_files).name)])

IsQuery(token) == token \in {"?x=1", "?t=1", "?v=2", "?issueId="}

\* self.path.lstrip('/').split('?')[0]
RECURSIVE StripSlashes(_)
StripSlashes(path) ==
    IF path # <<>> /\ path[1] = "/" THEN StripSlashes(Tail(path)) ELSE path

RECURSIVE BeforeQuery(_)
BeforeQuery(path) ==
    IF path = <<>> \/ IsQuery(path[1]) THEN <<>>
    ELSE <<path[1]>> \o BeforeQuery(Tail(path))

\* the regular files there are, by the path that open() is given
ExistingFiles ==
    {<<script_dir, "/", "viewer.html">>, <<script_dir, "/", "../", "secret.txt">>,
     <<script_dir, "/", "sub/", "../", "viewer.html">>}

ContentType(full_path) ==
    IF full_path[Len(full_path)] = "viewer.html" THEN "text/html" ELSE "text/plain"

\* os.path.join(dir, path): an absolute path replaces dir, and nothing is
\* normalised
PathJoin(dir, path) ==
    IF path # <<>> /\ path[1] = "/" THEN path ELSE <<dir, "/">> \o path

\* full_path.startswith(prefix), for a prefix that is one path token
StartsWith(full_path, prefix) == full_path # <<>> /\ full_path[1] = prefix

\* serve_static_file
ServeStaticFile(path, readable) ==
    LET file_path == IF path = <<"/">> THEN <<"viewer.html">>
                     ELSE BeforeQuery(StripSlashes(path))
        full_path == PathJoin(script_dir, file_path)
    IN  IF ~StartsWith(full_path, script_dir)
        THEN <<SetHeaders(403, "text/plain"), Body(Exc("Forbidden"))>>
        ELSE IF full_path \notin ExistingFiles
        THEN <<SetHeaders(404, "text/html"), Body(Exc("<h1>404 Not Found</h1>"))>>
        ELSE IF ~readable
        THEN <<SetHeaders(500, "text/plain"), Body(Exc("Internal Server Error"))>>
        ELSE <<SetHeaders(200, ContentType(full_path)), Body([file |-> full_path])>>

(***************************************************************************)
(* refresh-data                                                            *)
(***************************************************************************)
Stdout == [captured |-> "stdout"]
Stderr == [captured |-> "stderr"]

\* a handler that does not look at the return code
RefreshResponseAlwaysOk(result) ==
    JsonResponse(200, [success |-> TRUE,
                       message |-> Exc("Data refreshed successfully"),
                       output |-> result.stdout])

\* handle_refresh_data once subprocess.run has returned `result`
RefreshResponse(result) ==
    IF result.returncode = [rc |-> 0]
    THEN JsonResponse(200, [success |-> TRUE,
                            message |-> Exc("Data refreshed successfully"),
                            output |-> result.stdout])
    ELSE JsonResponse(500, [success |-> FALSE,
                            error |-> [text |-> "Script failed", stderr |-> result.stderr],
                            output |-> result.stdout])

\* the except clauses of handle_refresh_data
RefreshFailed(exc) == JsonResponse(500, [success |-> FALSE, error |-> Exc(exc)])

(***************************************************************************)
(* The server: HTTPServer.serve_forever and the handlers                   *)
(***************************************************************************)
\* a threaded server, which accepts while a handler is running
CanAcceptWhileHandling == spc # "off"

\* HTTPServer handles a request to its end before it accepts the next one
CanAccept == spc \in {"idle", "responded"}

\* a routing that compares the path of a POST without its query string
RouteIgnoringQuery(r) ==
    IF r.method = "POST"
    THEN IF r.path[1] = "/api/add-label" THEN "handle_add_label"
         ELSE IF r.path[1] = "/api/remove-label" THEN "handle_remove_label"
         ELSE IF r.path[1] = "/api/available-labels" THEN "handle_get_available_labels"
         ELSE IF r.path[1] = "/api/refresh-data" THEN "handle_refresh_data"
         ELSE "not_found"
    ELSE IF r.method = "GET"
    THEN IF r.path[1] = "/api/issue-labels" THEN "handle_get_issue_labels"
         ELSE IF r.path = <<"/api/latest-json">> THEN "handle_get_latest_json"
         ELSE "serve_static_file"
    ELSE "do_OPTIONS"

\* do_POST, do_GET, do_OPTIONS: the handler a request is routed to
Route(r) ==
    IF r.method = "POST"
    THEN IF r.path = <<"/api/add-label">> THEN "handle_add_label"
         ELSE IF r.path = <<"/api/remove-label">> THEN "handle_remove_label"
         ELSE IF r.path = <<"/api/available-labels">> THEN "handle_get_available_labels"
         ELSE IF r.path = <<"/api/refresh-data">> THEN "handle_refresh_data"
         ELSE "not_found"
    ELSE IF r.method = "GET"
    THEN IF r.path[1] = "/api/issue-labels" THEN "handle_get_issue_labels"
         ELSE IF r.path = <<"/api/latest-json">> THEN "handle_get_latest_json"
         ELSE "serve_static_file"
    ELSE "do_OPTIONS"

ProxyHandlers ==
    {"handle_add_label", "handle_remove_label", "handle_get_available_labels",
     "handle_get_issue_labels"}

\* a proxy handler up to requests.post
ProxyStep(r) ==
    IF Route(r) = "handle_add_label" THEN LabelMutation(r.post, "AddLabelToIssue")
    ELSE IF Route(r) = "handle_remove_label"
    THEN LabelMutation(r.post, "RemoveLabelFromIssue")
    ELSE IF Route(r) = "handle_get_available_labels" THEN AvailableLabels(r.post)
    ELSE IssueLabels(r.path)

\* the state of the script process p, before it has run anything
ResetProcess(p) ==
    /\ proc' = p
    /\ entry' = "main"
    /\ fpc' = "start"
    /\ NoCall
    /\ api_error' = FALSE
    /\ preprod_issues_filtered' = <<>>
    /\ final_issues' = <<>>
    /\ json_out' = None
    /\ csv_out' = <<>>
    /\ csv_raised' = FALSE
    /\ returncode' = None
    /\ UNCHANGED honours_first

\* the handler returns, having written w
Respond(w) ==
    /\ wire' = w
    /\ spc' = "responded"
    /\ open' = open - 1
    /\ UNCHANGED req

\* serve_forever takes the next request and calls its do_ method
Accept ==
    /\ CanAccept
    /\ \E r \in Requests : req' = r
    /\ spc' = "handling"
    /\ wire' = <<>>
    /\ outbound' = 0
    /\ posted' = None
    /\ upstream_reply' = None
    /\ dir_seen' = None
    /\ open' = open + 1
    /\ ResetProcess("none")

HandleProxy ==
    /\ spc = "handling" /\ Route(req) \in ProxyHandlers
    /\ LET step == ProxyStep(req)
       IN  IF "respond" \in DOMAIN step
           THEN Respond(step.respond) /\ UNCHANGED <<outbound, posted>>
           ELSE /\ spc' = "proxy_wait"
                /\ outbound' = outbound + 1
                /\ posted' = step
                /\ UNCHANGED <<req, wire, open>>
    /\ UNCHANGED <<upstream_reply, dir_seen, scriptvars>>

\* requests.post returns or raises, and the handler runs to its end
UpstreamReply ==
    /\ spc = "proxy_wait"
    /\ \E reply \in ProxyReplies :
          /\ upstream_reply' = reply
          /\ Respond(ProxyRespond(reply))
    /\ UNCHANGED <<outbound, posted, dir_seen, scriptvars>>

\* handle_refresh_data up to subprocess.run, which may fail to start the
\* script
HandleRefresh ==
    /\ spc = "handling" /\ Route(req) = "handle_refresh_data"
    /\ \E started \in BOOLEAN :
          IF started
          THEN /\ ResetProcess("running")
               /\ spc' = "refresh_run"
               /\ UNCHANGED <<req, wire, open>>
          ELSE Respond(RefreshFailed("OSError")) /\ UNCHANGED scriptvars
    /\ UNCHANGED <<outbound, posted, upstream_reply, dir_seen>>

\* subprocess.run returns once the script has exited
RefreshExit ==
    /\ spc = "refresh_run" /\ proc = "exited"
    /\ Respond(RefreshResponse([returncode |-> returncode, stdout |-> Stdout,
                                stderr |-> Stderr]))
    /\ UNCHANGED <<outbound, posted, upstream_reply, dir_seen, scriptvars>>

\* 60 seconds have passed: subprocess.run kills the script, waits for it and
\* raises TimeoutExpired
RefreshTimeout ==
    /\ spc = "refresh_run" /\ proc = "running"
    /\ proc' = "killed"
    /\ fpc' = "killed"
    /\ preprod_issues_filtered' = <<>>
    /\ NoCall
    /\ Respond(RefreshFailed("Script execution timed out (60s)"))
    /\ UNCHANGED <<entry, api_error, final_issues, json_out, csv_out, csv_raised,
                   returncode, honours_first, outbound, posted,
                   upstream_reply, dir_seen>>

HandleLatestJson ==
    /\ spc = "handling" /\ Route(req) = "handle_get_latest_json"
    /\ \E listing \in Listings, vanished \in BOOLEAN :
          /\ dir_seen' = [listing |-> listing, vanished |-> vanished]
          /\ Respond(LatestJson(listing, vanished))
    /\ UNCHANGED <<outbound, posted, upstream_reply, scriptvars>>

HandleStatic ==
    /\ spc = "handling" /\ Route(req) = "serve_static_file"
    /\ \E readable \in BOOLEAN : Respond(ServeStaticFile(req.path, readable))
    /\ UNCHANGED <<outbound, posted, upstream_reply, dir_seen, scriptvars>>

HandleNotFound ==
    /\ spc = "handling" /\ Route(req) = "not_found"
    /\ Respond(JsonResponse(404, [error |-> Exc("Not found")]))
    /\ UNCHANGED <<outbound, posted, upstream_reply, dir_seen, scriptvars>>

HandleOptions ==
    /\ spc = "handling" /\ Route(req) = "do_OPTIONS"
    /\ Respond(<<SetHeaders(200, "application/json")>>)
    /\ UNCHANGED <<outbound, posted, upstream_reply, dir_seen, scriptvars>>

(***************************************************************************)
(* Initial states                                                          *)
(***************************************************************************)
\* a process that has not run anything yet
FreshProcess(e) ==
    /\ entry = e
    /\ fpc = "start"
    /\ phase = "none"
    /\ all_issues = <<>>
    /\ has_next_page = TRUE
    /\ end_cursor = None
    /\ request = None
    /\ failed = FALSE
    /\ stop_reported = FALSE
    /\ api_error = FALSE
    /\ preprod_issues_filtered = <<>>
    /\ final_issues = <<>>
    /\ json_out = None
    /\ csv_out = <<>>
    /\ csv_raised = FALSE
    /\ returncode = None

NoServer ==
    /\ spc = "off"
    /\ req = None
    /\ wire = <<>>
    /\ outbound = 0
    /\ posted = None
    /\ upstream_reply = None
    /\ dir_seen = None
    /\ open = 0

\* get_issues_by_label or get_issues_from_view called on its own
InitFetch ==
    /\ proc = "running"
    /\ \E e \in {"by_label", "view"} : FreshProcess(e)
    /\ honours_first \in BOOLEAN
    /\ NoServer

NextFetch == CallStart \/ CustomViewReply \/ SendPageRequest \/ ReceivePage

FetchSpec == InitFetch /\ [][NextFetch]_vars /\ WF_vars(NextFetch)

\* the script run from the command line
InitMain ==
    /\ proc = "running"
    /\ FreshProcess("main")
    /\ honours_first = TRUE
    /\ NoServer

NextMain ==
    \/ MainStart \/ SendPageRequest \/ ReceivePage \/ FilterPreprod
    \/ MergeAndFilter \/ Summarise \/ ExportJson \/ ExportCsv

MainSpec == InitMain /\ [][NextMain]_vars

\* export_to_csv called on its own
FullIssue ==
    [id |-> "i1", identifier |-> "ENG-1", title |-> "t",
     state |-> [name |-> "Todo"], team |-> [name |-> "ENG"],
     assignee |-> [displayName |-> "ada"], project |-> [name |-> "V3"],
     cycle |-> [name |-> "Cycle 7"], labels |-> Labels(<<preprod_v3, Release_Blocker>>)]

ObjectFields == {"state", "team", "assignee", "project", "cycle", "labels"}

CsvPool ==
    {FullIssue, EmptyDict, [f \in ObjectFields |-> None]}
    \cup {[k \in DOMAIN FullIssue \ {f} |-> FullIssue[k]] : f \in ObjectFields}
    \cup {[FullIssue EXCEPT ![f] = None] : f \in ObjectFields}

InitCsv ==
    /\ proc = "running"
    /\ entry = "csv"
    /\ fpc = "export_csv"
    /\ phase = "none"
    /\ all_issues = <<>>
    /\ has_next_page = TRUE
    /\ end_cursor = None
    /\ request = None
    /\ failed = FALSE
    /\ stop_reported = FALSE
    /\ api_error = FALSE
    /\ preprod_issues_filtered = <<>>
    /\ final_issues \in SeqsUpTo(CsvPool, MaxCsvIssues)
    /\ json_out = None
    /\ csv_out = <<>>
    /\ csv_raised = FALSE
    /\ returncode = None
    /\ honours_first = TRUE
    /\ NoServer

NextCsv == ExportCsv

CsvSpec == InitCsv /\ [][NextCsv]_vars

\* the server, which runs the script as the subprocess of refresh-data
Init ==
    /\ proc = "none"
    /\ FreshProcess("main")
    /\ honours_first = TRUE
    /\ spc = "idle"
    /\ req = None
    /\ wire = <<>>
    /\ outbound = 0
    /\ posted = None
    /\ upstream_reply = None
    /\ dir_seen = None
    /\ open = 0

Next ==
    \/ Accept \/ HandleProxy \/ UpstreamReply \/ HandleRefresh \/ RefreshExit
    \/ RefreshTimeout \/ HandleLatestJson \/ HandleStatic \/ HandleNotFound
    \/ HandleOptions
    \/ MainStart \/ SendPageRequest \/ ReceivePage \/ FilterPreprod
    \/ MergeAndFilter \/ Summarise \/ ExportJson \/ ExportCsv

Spec == Init /\ [][Next]_vars

(***************************************************************************)
(* Properties                                                              *)
(***************************************************************************)
\* two names are equal up to the case of their letters, letter by letter
\* over the alphabet tables
SameIgnoringCase(a, b) ==
    /\ Len(a) = Len(b)
    /\ \A i \in DOMAIN a :
          \/ a[i] = b[i]
          \/ \E k \in DOMAIN UpperLetters :
                {a[i], b[i]} = {UpperLetters[k], LowerLetters[k]}

\* the issue carries a label named 'launched' in some casing
CarriesLaunched(issue) ==
    /\ "labels" \in DOMAIN issue
    /\ issue["labels"] # None
    /\ "nodes" \in DOMAIN issue["labels"]
    /\ \E i \in DOMAIN issue["labels"]["nodes"] :
          SameIgnoringCase(issue["labels"]["nodes"][i]["name"], launched)

\* C1: after the merge of the filtered preprod-v3 issues and the
\* Release Blocker issues, the final list of main holds at most one record
\* for any issue id.
C1_OneRecordPerId ==
    \A i, j \in DOMAIN final_issues :
        final_issues[i]["id"] = final_issues[j]["id"] => i = j

\* main is about to summarise a non-empty final list that was merged from
\* two lists with an issue id in common
C1_Witness ==
    /\ entry = "main" /\ fpc = "summary"
    /\ final_issues # <<>>
    /\ \E i \in DOMAIN preprod_issues_filtered, j \in DOMAIN all_issues :
          preprod_issues_filtered[i]["id"] = all_issues[j]["id"]

\* C2: no issue of the final list that main summarises and exports carries
\* a label whose name is 'launched' in any casing, and neither does an
\* issue of the exported JSON.
C2_NoLaunched ==
    /\ \A i \in DOMAIN final_issues : ~CarriesLaunched(final_issues[i])
    /\ json_out # None =>
          \A i \in DOMAIN json_out.list : ~CarriesLaunched(json_out.list[i])

\* main is about to summarise a non-empty final list while the
\* Release Blocker issues it fetched hold one that is labelled 'LAUNCHED' or
\* 'Launched'
C2_Witness ==
    /\ entry = "main" /\ fpc = "summary"
    /\ final_issues # <<>>
    /\ \E j \in DOMAIN all_issues : CarriesLaunched(all_issues[j])

\* C3: export_to_csv, called on a non-empty list whose file it could open,
\* does not raise and writes the header line and one row of the 14 columns
\* for every issue, whichever of the issue's fields are present, missing
\* or null.
C3_HeaderAndRowPerIssue ==
    (/\ entry = "csv" /\ proc = "exited"
     /\ final_issues # <<>>
     /\ (csv_out # <<>> \/ csv_raised))
    => /\ ~csv_raised
       /\ Len(csv_out) = Len(final_issues) + 1
       /\ csv_out[1] = [header |-> fieldnames]
       /\ \A i \in 2..Len(csv_out) :
             /\ "row" \in DOMAIN csv_out[i]
             /\ DOMAIN csv_out[i].row = {fieldnames[k] : k \in DOMAIN fieldnames}
             /\ Cardinality(DOMAIN csv_out[i].row) = 14

\* while a request is awaited: no page so far reported the end, no request
\* so far failed, and fewer than max_issues issues are accumulated
C4_NoRequestAfterStop ==
    fpc = "wait" =>
        /\ ~stop_reported
        /\ ~failed
        /\ Len(all_issues) < max_issues

\* a page that reports hasNextPage true and adds no issue has been processed
C4_EmptyPageWithNext ==
    /\ fpc = "wait" /\ fpc' = "loop"
    /\ all_issues' = all_issues

\* C4 as stated: every call of get_issues_by_label and of
\* get_issues_from_view returns, and no request is issued after a page
\* without a next page, after max_issues issues, or after a failure.
C4_AlwaysReturns ==
    /\ []C4_NoRequestAfterStop
    /\ <>(fpc = "returned")

\* C4, amended: no request is issued after a page without a next page, after
\* max_issues issues, or after a failure; and when every request is
\* answered, the call returns unless the API answers again and again with
\* pages that report hasNextPage true and hold no issue.
C4_ReturnsUnlessEmptyPagesForever ==
    /\ []C4_NoRequestAfterStop
    /\ \/ <>(fpc = "returned")
       \/ []<><<C4_EmptyPageWithNext>>_vars

\* a direct call has returned with max_issues issues or more
C4_Witness ==
    /\ entry \in {"by_label", "view"}
    /\ fpc = "returned"
    /\ Len(all_issues) >= max_issues

\* C5: when the upstream reply of a proxy handler is a JSON object with an
\* 'errors' entry, the response is status 400 with the body
\* {'error': <those errors>} and nothing else, whatever 'data' holds.
C5_ErrorsGive400 ==
    (/\ spc = "responded"
     /\ Route(req) \in ProxyHandlers
     /\ upstream_reply # None
     /\ "json" \in DOMAIN upstream_reply
     /\ upstream_reply.json # None
     /\ "errors" \in DOMAIN upstream_reply.json)
    => wire = <<SetHeaders(400, "application/json"),
                Body([error |-> upstream_reply.json["errors"]])>>

\* a proxy handler has answered an upstream reply that holds both 'errors'
\* and 'data'
C5_Witness ==
    /\ spc = "responded"
    /\ Route(req) \in ProxyHandlers
    /\ upstream_reply = [json |-> [errors |-> G("E"), data |-> G("D")]]
    /\ wire[1].status = 400

\* C6: when a request to the API failed during the fetch that refresh-data
\* started, the response of refresh-data has a 4xx or 5xx status and does
\* not report success.
C6_ApiErrorSurfaced ==
    (/\ spc = "responded"
     /\ Route(req) = "handle_refresh_data"
     /\ api_error)
    => /\ wire[1].status >= 400
       /\ wire[2].body.success = FALSE

\* C7: a proxy handler that met a missing or non-numeric Content-Length, a
\* malformed JSON body, a network failure, or an upstream reply that is not
\* JSON or is an object without 'errors' and without 'data', responds with
\* the single status 500 and a body {'error': <text>}.
C7_ExceptionsGive500 ==
    (/\ spc = "responded"
     /\ Route(req) \in ProxyHandlers
     /\ \/ /\ req.method = "POST"
           /\ \/ req.post.content_length # S("ok")
              \/ req.post.body = NotJson
        \/ /\ upstream_reply # None
           /\ \/ "exc" \in DOMAIN upstream_reply
              \/ upstream_reply.json = NotJson
              \/ /\ upstream_reply.json # None
                 /\ ~IsList(upstream_reply.json)
                 /\ "errors" \notin DOMAIN upstream_reply.json
                 /\ "data" \notin DOMAIN upstream_reply.json)
    => /\ Len(wire) = 2
       /\ wire[1].status = 500
       /\ "error" \in DOMAIN wire[2].body

\* a handler has issued at most one GraphQL request for its inbound
\* request, and the fetcher issues no page request after one has failed
C8_NoRequestAfterFailure ==
    /\ outbound <= 1
    /\ fpc = "wait" => ~failed

\* the first page request of a call carries after = null, so a request
\* issued when issues are already accumulated is not the first, and it
\* repeats the cursor of the first when its 'after' is null
C8_CursorRequestedAgain ==
    /\ fpc = "wait"
    /\ all_issues # <<>>
    /\ request.after = None

\* C8 as stated: at most one outbound request per inbound request, no page
\* request after a failed one, and each cursor value requested at most
\* once in a fetch call.
C8_EachCursorOnce == C8_NoRequestAfterFailure /\ ~C8_CursorRequestedAgain

\* C8, amended: at most one outbound request per inbound request, and no
\* page request after a failed one (a cursor value is requested again when
\* the API hands it out again).
C8_NoRetry ==
    /\ C8_NoRequestAfterFailure
    /\ spc = "responded" /\ Route(req) \in ProxyHandlers /\ upstream_reply # None
          => outbound = 1

\* a fetch call of the refresh subprocess has returned after a page request
\* that failed following a page that succeeded
C8_Witness ==
    /\ spc = "refresh_run"
    /\ fpc = "returned"
    /\ failed
    /\ all_issues # <<>>

\* C9: at most one request is being handled at any time, no request is
\* handled while the refresh subprocess runs, and refresh-data has
\* responded only when its subprocess is no longer running.
C9_OneAtATime ==
    /\ open <= 1
    /\ proc = "running" => spc = "refresh_run"
    /\ (spc = "responded" /\ Route(req) = "handle_refresh_data")
          => proc \in {"none", "exited", "killed"}

\* refresh-data has responded after its subprocess was killed at the timeout
C9_Witness ==
    /\ spc = "responded"
    /\ Route(req) = "handle_refresh_data"
    /\ proc = "killed"
    /\ open = 0

\* C10: refresh-data responds with status 200, success true and the
\* captured stdout exactly when its subprocess exited by itself with return
\* code 0; otherwise with status 500, success false and an 'error' entry.
C10_SuccessIffReturnCodeZero ==
    (spc = "responded" /\ Route(req) = "handle_refresh_data")
    => IF proc = "exited" /\ returncode = [rc |-> 0]
       THEN /\ Len(wire) = 2
            /\ wire[1].status = 200
            /\ wire[2].body.success = TRUE
            /\ wire[2].body.output = Stdout
       ELSE /\ Len(wire) = 2
            /\ wire[1].status = 500
            /\ wire[2].body.success = FALSE
            /\ "error" \in DOMAIN wire[2].body

\* refresh-data has responded to a subprocess that exited with return code 1
C10_Witness ==
    /\ spc = "responded"
    /\ Route(req) = "handle_refresh_data"
    /\ proc = "exited"
    /\ returncode = [rc |-> 1]
    /\ wire[1].status = 500

\* the files of a listing whose name is linear_view_issues_<anything>.json
C11_DataFiles(listing) ==
    {i \in DOMAIN listing :
        /\ listing[i].name[1] = "linear_view_issues_"
        /\ listing[i].name[Len(listing[i].name)] = ".json"}

\* C11: when the files of the script directory stay as they are during the
\* request, latest-json answers 404 {'error': 'No data files found'} if no
\* file is named linear_view_issues_*.json, and otherwise 200 with the base
\* name of a matching file that no matching file exceeds in modification
\* time.
C11_LatestJson ==
    (/\ spc = "responded"
     /\ Route(req) = "handle_get_latest_json"
     /\ ~dir_seen.vanished)
    => LET listing == dir_seen.listing
           data == C11_DataFiles(listing)
       IN  IF data = {}
           THEN wire = <<SetHeaders(404, "application/json"),
                         Body([error |-> Exc("No data files found")])>>
           ELSE /\ Len(wire) = 2
                /\ wire[1] = SetHeaders(200, "application/json")
                /\ DOMAIN wire[2].body = {"filename"}
                /\ \E i \in data :
                      /\ wire[2].body.filename = listing[i].name
                      /\ \A j \in data : listing[j].mtime <= listing[i].mtime

\* latest-json has answered 200 with the second file of a directory whose
\* first file is an older data file and whose newest file is no data file
C11_Witness ==
    /\ spc = "responded"
    /\ Route(req) = "handle_get_latest_json"
    /\ ~dir_seen.vanished
    /\ Len(dir_seen.listing) = 3
    /\ 1 \in C11_DataFiles(dir_seen.listing)
    /\ dir_seen.listing[1].mtime < dir_seen.listing[2].mtime
    /\ dir_seen.listing[2].mtime < dir_seen.listing[3].mtime
    /\ wire[1].status = 200
    /\ wire[2].body.filename = dir_seen.listing[2].name

\* C12: what a handler has written for a request holds exactly one status
\* line with its header block, and, for every handler but do_OPTIONS, one
\* body after it.
C12_OneStatusLine ==
    spc = "responded" =>
        /\ Cardinality({i \in DOMAIN wire : "status" \in DOMAIN wire[i]}) = 1
        /\ "status" \in DOMAIN wire[1]
        /\ Route(req) # "do_OPTIONS" =>
              /\ Len(wire) = 2
              /\ "body" \in DOMAIN wire[2]

\* how many directories below the script directory the tokens of a relative
\* path lead, or -1 once they have led above it
RECURSIVE C13_Depth(_, _, _)
C13_Depth(file_path, i, depth) ==
    IF depth < 0 \/ i > Len(file_path) THEN depth
    ELSE IF file_path[i] = "../" THEN C13_Depth(file_path, i + 1, depth - 1)
    ELSE IF file_path[i] = "sub/" THEN C13_Depth(file_path, i + 1, depth + 1)
    ELSE C13_Depth(file_path, i + 1, depth)

\* the request path, taken relative to the script directory, names a
\* location outside it
C13_Outside(path) ==
    LET rel == SelectSeq(path, LAMBDA t : t # "/" /\ ~IsQuery(t))
    IN  C13_Depth(rel, 1, 0) < 0

\* C13: serve_static_file returns a file's contents only when the request
\* path names a location inside the script directory: for a path that
\* resolves outside it, whatever is written holds no file content.
C13_NoFileOutside ==
    (/\ spc = "responded"
     /\ Route(req) = "serve_static_file"
     /\ C13_Outside(req.path))
    => \A i \in DOMAIN wire :
          "body" \in DOMAIN wire[i] => "file" \notin DOMAIN wire[i].body

\* the handler posted nothing, or a GraphQL operation of `queries`
C14_PostedOnly(queries) == posted # None => posted.query \in queries

\* the request was answered without a GraphQL request, a subprocess or a
\* look into the script directory
C14_NothingElseDone == outbound = 0 /\ posted = None /\ proc = "none" /\ dir_seen = None

\* C14: a POST of exactly /api/add-label, /api/remove-label,
\* /api/available-labels or /api/refresh-data is answered by the matching
\* handler, any other POST by 404 {'error': 'Not found'} without an external
\* call; a GET whose path starts with /api/issue-labels by the issue-label
\* lookup, a GET of exactly /api/latest-json by latest-export discovery, and
\* any other GET as a static file request.
C14_RoutingTable ==
    spc = "responded" =>
        /\ (req.method = "POST" /\ req.path = <<"/api/add-label">>) =>
              /\ C14_PostedOnly({"AddLabelToIssue"})
              /\ posted = None => wire[1].status \in {400, 500}
              /\ proc = "none" /\ dir_seen = None
        /\ (req.method = "POST" /\ req.path = <<"/api/remove-label">>) =>
              /\ C14_PostedOnly({"RemoveLabelFromIssue"})
              /\ posted = None => wire[1].status \in {400, 500}
              /\ proc = "none" /\ dir_seen = None
        /\ (req.method = "POST" /\ req.path = <<"/api/available-labels">>) =>
              /\ C14_PostedOnly({"GetTeamLabels", "GetAllLabels"})
              /\ posted = None => wire[1].status = 500
              /\ proc = "none" /\ dir_seen = None
        /\ (req.method = "POST" /\ req.path = <<"/api/refresh-data">>) =>
              /\ "success" \in DOMAIN wire[2].body
              /\ posted = None /\ dir_seen = None
        /\ (/\ req.method = "POST"
            /\ req.path \notin {<<"/api/add-label">>, <<"/api/remove-label">>,
                                <<"/api/available-labels">>, <<"/api/refresh-data">>}) =>
              /\ wire = <<SetHeaders(404, "application/json"),
                          Body([error |-> Exc("Not found")])>>
              /\ C14_NothingElseDone
        /\ (req.method = "GET" /\ req.path[1] = "/api/issue-labels") =>
              /\ C14_PostedOnly({"GetIssueLabels"})
              /\ posted = None =>
                    wire = <<SetHeaders(400, "application/json"),
                             Body([error |-> Exc("Missing issueId")])>>
              /\ proc = "none" /\ dir_seen = None
        /\ (req.method = "GET" /\ req.path = <<"/api/latest-json">>) =>
              /\ dir_seen # None
              /\ posted = None /\ proc = "none"
        /\ (/\ req.method = "GET"
            /\ req.path[1] # "/api/issue-labels"
            /\ req.path # <<"/api/latest-json">>) =>
              /\ wire[1].content_type # "application/json"
              /\ wire[1].status \in {200, 403, 404, 500}
              /\ C14_NothingElseDone

\* a POST of /api/add-label with a query string has been answered 404
C14_Witness ==
    /\ spc = "responded"
    /\ req.method = "POST"
    /\ req.path = <<"/api/add-label", "?x=1">>
    /\ wire[1].status = 404
    /\ outbound = 0

\* the POST carries a JSON object in which key k is missing, null or empty
C15_Lacks(post, k) ==
    /\ post.content_length = S("ok")
    /\ post.body # NotJson
    /\ "list" \notin DOMAIN post.body
    /\ \/ k \notin DOMAIN post.body
       \/ post.body[k] = None
       \/ post.body[k] = S("")

\* the query string of the path gives issueId a non-empty value
C15_HasIssueId(path) ==
    \E i \in DOMAIN path : path[i] = "?issueId=" /\ i < Len(path)

\* C15: add-label and remove-label with a JSON object in which issueId or
\* labelId is missing or empty, and issue-labels without a non-empty
\* issueId parameter, are answered 400 with a JSON 'error' message, and no
\* request to the external API is issued.
C15_MissingIdsGive400 ==
    (/\ spc = "responded"
     /\ \/ /\ req.method = "POST"
           /\ req.path \in {<<"/api/add-label">>, <<"/api/remove-label">>}
           /\ (C15_Lacks(req.post, "issueId") \/ C15_Lacks(req.post, "labelId"))
        \/ /\ req.method = "GET"
           /\ req.path[1] = "/api/issue-labels"
           /\ ~C15_HasIssueId(req.path))
    => /\ Len(wire) = 2
       /\ wire[1] = SetHeaders(400, "application/json")
       /\ DOMAIN wire[2].body = {"error"}
       /\ outbound = 0
       /\ posted = None

\* remove-label has answered 400 to a body whose labelId is the empty string
C15_Witness ==
    /\ spc = "responded"
    /\ req.method = "POST"
    /\ req.path = <<"/api/remove-label">>
    /\ req.post = [content_length |-> S("ok"),
                   body |-> [issueId |-> S("I"), labelId |-> S("")]]
    /\ wire[1].status = 400
    /\ outbound = 0

\* the step in which a page request, or the processing of its response,
\* fails
C16_PageFails == fpc = "wait" /\ ~failed /\ failed'

\* C16 as stated: when a page request fails, the function stops paginating
\* and returns exactly the issues accumulated from the pages before it.
C16_ReturnsEarlierPages ==
    [][C16_PageFails => fpc' = "returned" /\ all_issues' = all_issues]_vars

\* C16, amended: when a page request fails, the function stops paginating
\* and returns, in fetch order, the issues accumulated from the pages before
\* it, followed by nothing else than nodes of the failing page itself (when
\* the exception came after they were appended).
C16_ReturnsAccumulated ==
    [][C16_PageFails =>
          /\ fpc' = "returned"
          /\ Len(all_issues') >= Len(all_issues)
          /\ SubSeq(all_issues', 1, Len(all_issues)) = all_issues
          /\ Len(all_issues') <= Len(all_issues) + request.first + Overshoot
          /\ \A i \in (Len(all_issues) + 1)..Len(all_issues') :
                all_issues'[i] \in Pool(entry)]_vars

\* a direct call has returned after a failure with issues accumulated
C16_Witness ==
    /\ entry \in {"by_label", "view"}
    /\ fpc = "returned"
    /\ failed
    /\ Len(all_issues) >= 2

\* the page request in flight asks for min(100, max_issues - fetched so far)
\* nodes, a number between 1 and the page size 100 (here PageLimit), after
\* the cursor the function holds; and with an API that honours 'first' the
\* list never holds more than max_issues issues
C17_RequestAndTotal ==
    /\ (fpc = "wait" /\ "first" \in DOMAIN request) =>
          /\ request.first = (IF PageLimit < max_issues - Len(all_issues)
                              THEN PageLimit ELSE max_issues - Len(all_issues))
          /\ request.first >= 1
          /\ request.first <= PageLimit
          /\ request.after = end_cursor
    /\ honours_first => Len(all_issues) <= max_issues

\* the cursor held when the loop is entered is null, and the cursor held
\* after a page is one that a response can carry
C17_CursorFromResponse ==
    /\ (fpc \in {"start", "view_lookup"} /\ fpc' = "loop") => end_cursor' = None
    /\ (fpc = "wait" /\ fpc' = "loop") => end_cursor' \in Cursors \cup {None}

C18_CsvComplete ==
    /\ ~csv_raised
    /\ Len(csv_out) = Len(final_issues) + 1
    /\ "header" \in DOMAIN csv_out[1]
    /\ \A i \in 2..Len(csv_out) : "row" \in DOMAIN csv_out[i]

====
